---- MODULE Spec2Model ----
(***************************************************************************)
(* Model of nalgebra-lapack/src/eigen.rs: the real eigendecomposition      *)
(* Eigen::new, the complex eigenvalue extraction                           *)
(* Eigen::complex_eigenvalues, Eigen::determinant and the EigenScalar      *)
(* binding to the LAPACK kernel xgeev (sgeev / dgeev).                     *)
(*                                                                         *)
(* The LAPACK kernel is external: its outputs (info, wr, wi and the        *)
(* workspace size it reports in work[0]) are nondeterministic choices.     *)
(* Every kernel invocation is appended to the log `calls` with the         *)
(* arguments the Rust code passed and the outputs the kernel produced.     *)
(*                                                                         *)
(* A call of Eigen::new / complex_eigenvalues is split at its two kernel   *)
(* invocations: *_begin (precondition and buffer setup), *_work_size       *)
(* (workspace probe and its status check) and *_compute (compute call,     *)
(* status check, packaging of the result).                                 *)
(***************************************************************************)
EXTENDS Integers, Sequences, FiniteSets, TLC

(***************************************************************************)
(* Bounds of the model.                                                    *)
(***************************************************************************)
\* largest number of rows / columns of an input matrix
MaxN == 3
\* largest workspace length the kernel reports on a successful probe
MaxWork == 2
\* largest finite magnitude of the scalar type (stands for f32::MAX / f64::MAX)
FMax == 3

(***************************************************************************)
(* Scalars.  T is f32 or f64.  Finite values are the integers of           *)
(* -FMax..FMax; a product whose magnitude exceeds FMax overflows to an     *)
(* infinity, infinity times zero is NaN and NaN is absorbing, as in        *)
(* IEEE-754.  Rounding is not modelled.                                    *)
(***************************************************************************)
PosInf == FMax + 1
NegInf == 0 - (FMax + 1)
NaN == FMax + 2

IsInf(a) == a = PosInf \/ a = NegInf

Sign(a) == IF a > 0 THEN 1 ELSE IF a < 0 THEN 0 - 1 ELSE 0

\* T::zero() and T::one()
zero == 0
one == 1

\* e.is_zero()
is_zero(e) == e = zero

\* the scalar product a * b of `det *= *e`
Mul(a, b) ==
    IF a = NaN \/ b = NaN THEN NaN
    ELSE IF IsInf(a) \/ IsInf(b)
         THEN IF a = 0 \/ b = 0 THEN NaN
              ELSE IF Sign(a) * Sign(b) > 0 THEN PosInf ELSE NegInf
         ELSE LET p == a * b
              IN  IF p > FMax THEN PosInf
                  ELSE IF p < 0 - FMax THEN NegInf
                  ELSE p

(***************************************************************************)
(* Values the kernel may produce.                                          *)
(***************************************************************************)
\* real parts the kernel may write into wr
ReVals == {0, 1, FMax}
\* imaginary parts the kernel may write into wi
ImVals == {0 - 1, 0, 1}
\* status codes: 0 success, < 0 illegal argument, > 0 no convergence
InfoVals == {0 - 1, 0, 1}
\* workspace lengths reported by a successful probe
WorkSizes == 1..MaxWork

Dims == 0..MaxN

Vectors(n, S) == [1..n -> S]

(***************************************************************************)
(* Matrices and vectors of the container library, as far as the code uses  *)
(* them.  A matrix is modelled by its shape; the eigenvector entries the   *)
(* kernel writes are not modelled.                                         *)
(***************************************************************************)
\* Matrix::zeros_generic(nrows, Const::<1>)
zeros_vector(n) == [i \in 1..n |-> zero]

\* Matrix::zeros_generic(nrows, ncols)
zeros_matrix(r, c) == [present |-> TRUE, nrows |-> r, ncols |-> c]

\* Option::None for an eigenvector matrix
NoMatrix == [present |-> FALSE, nrows |-> 0, ncols |-> 0]

\* m.is_square()
is_square(r, c) == r = c

\* wi.iter().all(|e| e.is_zero())
all_zero(v) == \A i \in 1..Len(v) : is_zero(v[i])

(***************************************************************************)
(* State.                                                                  *)
(***************************************************************************)
VARIABLES
    pc,                 \* "idle", "work_size", "compute", "done"
    api,                \* "none", "new", "complex_eigenvalues"
    nrows, ncols,       \* shape of the input matrix m
    left_eigenvectors,  \* flag of Eigen::new
    eigenvectors,       \* flag of Eigen::new
    wr, wi,             \* the real / imaginary parts buffers
    info,               \* the status variable
    lwork,              \* value returned by xgeev_work_size
    calls,              \* log of the kernel invocations of this call
    paths,              \* match arms of Eigen::new entered by this call
    outcome,            \* "pending", "Some", "None", "panic", "value"
    result,             \* the Eigen struct returned in Some
    res,                \* the vector returned by complex_eigenvalues
    det                 \* determinant calls: [called, value, before]

vars == <<pc, api, nrows, ncols, left_eigenvectors, eigenvectors, wr, wi,
          info, lwork, calls, paths, outcome, result, res, det>>

NoResult == [eigenvalues |-> <<>>, eigenvectors |-> NoMatrix,
             left_eigenvectors |-> NoMatrix]

NoDet == [called |-> FALSE, value |-> zero, before |-> NoResult]

Init ==
    /\ pc = "idle"
    /\ api = "none"
    /\ nrows = 0
    /\ ncols = 0
    /\ left_eigenvectors = FALSE
    /\ eigenvectors = FALSE
    /\ wr = <<>>
    /\ wi = <<>>
    /\ info = 0
    /\ lwork = 0
    /\ calls = <<>>
    /\ paths = <<>>
    /\ outcome = "pending"
    /\ result = NoResult
    /\ res = <<>>
    /\ det = NoDet


(***************************************************************************)
(* Status checks.  The macros lapack_check! and lapack_panic! are defined  *)
(* in the crate root, outside the files at hand: lapack_check! makes the   *)
(* enclosing function return None when info is nonzero, lapack_panic!      *)
(* aborts the call when info is nonzero.  Both operators are TRUE when the *)
(* macro leaves the function.                                              *)
(***************************************************************************)
lapack_check(i) == i # 0

lapack_panic(i) == i # 0

(***************************************************************************)
(* The EigenScalar binding.  A kernel invocation is recorded with the      *)
(* arguments passed (buffers by their length) and the outputs written.     *)
(***************************************************************************)
\* what the kernel may produce on a workspace probe (lwork = -1): a status
\* and, on success, the workspace length in work[0]; on failure work[0]
\* keeps the zero it was initialised with
KernelProbe ==
    {[info |-> i, work0 |-> w] : i \in {0}, w \in WorkSizes}
      \cup {[info |-> i, work0 |-> zero] : i \in InfoVals \ {0}}

\* what the kernel may produce on a compute call for dimension n
KernelCompute(n) ==
    [info : InfoVals, wr : Vectors(n, ReVals), wi : Vectors(n, ImVals)]

\* T::xgeev: one invocation of the kernel with a real workspace; k is what
\* the kernel produces
xgeev(jobvl, jobvr, n, lda, vl_len, ldvl, vr_len, ldvr, work_len, lwork_arg, k) ==
    [jobvl |-> jobvl, jobvr |-> jobvr, n |-> n, lda |-> lda,
     vl_len |-> vl_len, ldvl |-> ldvl, vr_len |-> vr_len, ldvr |-> ldvr,
     work_len |-> work_len, lwork |-> lwork_arg,
     info |-> k.info, wr_out |-> k.wr, wi_out |-> k.wi, work0 |-> zero]

\* T::xgeev_work_size: one invocation of the kernel with a one-element
\* workspace and lwork = -1; the caller reads work[0] back as the length.
\* The probe leaves wr and wi as they were.
xgeev_work_size(jobvl, jobvr, n, lda, wr_buf, wi_buf, vl_len, ldvl, vr_len, ldvr, k) ==
    [jobvl |-> jobvl, jobvr |-> jobvr, n |-> n, lda |-> lda,
     vl_len |-> vl_len, ldvl |-> ldvl, vr_len |-> vr_len, ldvr |-> ldvr,
     work_len |-> 1, lwork |-> 0 - 1,
     info |-> k.info, wr_out |-> wr_buf, wi_out |-> wi_buf, work0 |-> k.work0]

\* length of a placeholder buffer [T::zero()]
placeholder_len == 1

\* let ljob = if left_eigenvectors { b'V' } else { b'T' }  (rjob alike)
job(flag) == IF flag THEN "V" ELSE "T"

\* the mutant of work_len_of: a one-element workspace whatever the probe said
work_len_of_one(lw) == 1

\* vec![T::zero(); lwork as usize]: the length of the workspace (lwork is
\* never negative here)
work_len_of(lw) == lw

(***************************************************************************)
(* Eigen::new                                                              *)
(***************************************************************************)
\* the mutant of new_assert: the precondition is not checked
new_assert_skipped(r, c) == TRUE

\* assert!(m.is_square(), ...) of Eigen::new: TRUE when the assertion passes
new_assert(r, c) == is_square(r, c)

\* the mutant of new_match: the (true, false) arm hands its matrix out as
\* the right eigenvectors
new_match_swapped(l, e, r, c) ==
    CASE l /\ e ->
           [arm |-> "VV", vl_len |-> r * c, ldvl |-> r, vr_len |-> r * c, ldvr |-> r,
            left |-> zeros_matrix(r, c), right |-> zeros_matrix(r, c)]
      [] l /\ ~e ->
           [arm |-> "VT", vl_len |-> r * c, ldvl |-> r, vr_len |-> placeholder_len, ldvr |-> 1,
            left |-> NoMatrix, right |-> zeros_matrix(r, c)]
      [] ~l /\ e ->
           [arm |-> "TV", vl_len |-> placeholder_len, ldvl |-> 1, vr_len |-> r * c, ldvr |-> r,
            left |-> NoMatrix, right |-> zeros_matrix(r, c)]
      [] ~l /\ ~e ->
           [arm |-> "TT", vl_len |-> placeholder_len, ldvl |-> 1, vr_len |-> placeholder_len, ldvr |-> 1,
            left |-> NoMatrix, right |-> NoMatrix]

\* match (left_eigenvectors, eigenvectors): the arm taken, the eigenvector
\* buffers it allocates and passes to the kernel with their leading
\* dimensions, and the fields it puts into the result
new_match(l, e, r, c) ==
    CASE l /\ e ->
           [arm |-> "VV", vl_len |-> r * c, ldvl |-> r, vr_len |-> r * c, ldvr |-> r,
            left |-> zeros_matrix(r, c), right |-> zeros_matrix(r, c)]
      [] l /\ ~e ->
           [arm |-> "VT", vl_len |-> r * c, ldvl |-> r, vr_len |-> placeholder_len, ldvr |-> 1,
            left |-> zeros_matrix(r, c), right |-> NoMatrix]
      [] ~l /\ e ->
           [arm |-> "TV", vl_len |-> placeholder_len, ldvl |-> 1, vr_len |-> r * c, ldvr |-> r,
            left |-> NoMatrix, right |-> zeros_matrix(r, c)]
      [] ~l /\ ~e ->
           [arm |-> "TT", vl_len |-> placeholder_len, ldvl |-> 1, vr_len |-> placeholder_len, ldvr |-> 1,
            left |-> NoMatrix, right |-> NoMatrix]

\* the mutant of new_finish that does not look at the status
new_finish_unchecked(a, i, wr_buf, wi_buf) ==
    IF all_zero(wi_buf)
    THEN [outcome |-> "Some",
          result |-> [eigenvalues |-> wr_buf, eigenvectors |-> a.right,
                      left_eigenvectors |-> a.left]]
    ELSE [outcome |-> "None", result |-> NoResult]

\* the mutant of new_finish that does not look at the imaginary parts
new_finish_unvalidated(a, i, wr_buf, wi_buf) ==
    IF lapack_check(i)
    THEN [outcome |-> "None", result |-> NoResult]
    ELSE [outcome |-> "Some",
          result |-> [eigenvalues |-> wr_buf, eigenvectors |-> a.right,
                      left_eigenvectors |-> a.left]]

\* the mutant of new_finish that asserts on a negative status
new_finish_asserting(a, i, wr_buf, wi_buf) ==
    IF i < 0
    THEN [outcome |-> "panic", result |-> NoResult]
    ELSE IF lapack_check(i)
    THEN [outcome |-> "None", result |-> NoResult]
    ELSE IF all_zero(wi_buf)
    THEN [outcome |-> "Some",
          result |-> [eigenvalues |-> wr_buf, eigenvectors |-> a.right,
                      left_eigenvectors |-> a.left]]
    ELSE [outcome |-> "None", result |-> NoResult]

\* the end of every match arm: lapack_check!(info); Some(Self {..}) when
\* all imaginary parts are zero; otherwise the function falls through to
\* the final None
new_finish(a, i, wr_buf, wi_buf) ==
    IF lapack_check(i)
    THEN [outcome |-> "None", result |-> NoResult]
    ELSE IF all_zero(wi_buf)
    THEN [outcome |-> "Some",
          result |-> [eigenvalues |-> wr_buf, eigenvectors |-> a.right,
                      left_eigenvectors |-> a.left]]
    ELSE [outcome |-> "None", result |-> NoResult]

\* Eigen::new up to the workspace probe: the precondition, the buffers
new_begin(r, c, l, e) ==
    /\ pc = "idle"
    /\ api' = "new"
    /\ nrows' = r
    /\ ncols' = c
    /\ left_eigenvectors' = l
    /\ eigenvectors' = e
    /\ IF new_assert(r, c)
       THEN /\ wr' = zeros_vector(r)
            /\ wi' = zeros_vector(r)
            /\ info' = 0
            /\ pc' = "work_size"
            /\ outcome' = "pending"
       ELSE /\ pc' = "done"
            /\ outcome' = "panic"
            /\ UNCHANGED <<wr, wi, info>>
    /\ UNCHANGED <<lwork, calls, paths, result, res, det>>

\* Eigen::new: T::xgeev_work_size(..) and lapack_check!(info)
new_work_size ==
    /\ pc = "work_size"
    /\ api = "new"
    /\ \E k \in KernelProbe :
         /\ calls' = Append(calls,
                xgeev_work_size(job(left_eigenvectors), job(eigenvectors),
                                nrows, nrows, wr, wi,
                                placeholder_len, nrows, placeholder_len, nrows, k))
         /\ info' = k.info
         /\ lwork' = k.work0
         /\ IF lapack_check(k.info)
            THEN pc' = "done" /\ outcome' = "None"
            ELSE pc' = "compute" /\ outcome' = outcome
    /\ UNCHANGED <<api, nrows, ncols, left_eigenvectors, eigenvectors, wr, wi,
                   paths, result, res, det>>

\* Eigen::new: the workspace, the match arm with its T::xgeev(..), the
\* status check and the result
new_compute ==
    /\ pc = "compute"
    /\ api = "new"
    /\ LET a == new_match(left_eigenvectors, eigenvectors, nrows, ncols)
       IN  \E k \in KernelCompute(nrows) :
             LET f == new_finish(a, k.info, k.wr, k.wi)
             IN  /\ calls' = Append(calls,
                        xgeev(job(left_eigenvectors), job(eigenvectors),
                              nrows, nrows, a.vl_len, a.ldvl, a.vr_len, a.ldvr,
                              work_len_of(lwork), lwork, k))
                 /\ paths' = Append(paths, a.arm)
                 /\ wr' = k.wr
                 /\ wi' = k.wi
                 /\ info' = k.info
                 /\ outcome' = f.outcome
                 /\ result' = f.result
    /\ pc' = "done"
    /\ UNCHANGED <<api, nrows, ncols, left_eigenvectors, eigenvectors, lwork,
                   res, det>>


(***************************************************************************)
(* Eigen::complex_eigenvalues                                              *)
(***************************************************************************)
\* the mutant of complex_assert: the precondition is not checked
complex_assert_skipped(r, c) == TRUE

\* assert!(m.is_square(), ...) of complex_eigenvalues
complex_assert(r, c) == is_square(r, c)

\* the mutant of complex_finish that returns whatever the kernel left
complex_finish_unchecked(i, wr_buf, wi_buf, n) ==
    [outcome |-> "value",
     res |-> [j \in 1..n |-> [re |-> wr_buf[j], im |-> wi_buf[j]]]]

\* the mutant of complex_finish that builds Complex::new(wi[i], wr[i])
complex_finish_swapped(i, wr_buf, wi_buf, n) ==
    IF lapack_panic(i)
    THEN [outcome |-> "panic", res |-> <<>>]
    ELSE [outcome |-> "value",
          res |-> [j \in 1..n |-> [re |-> wi_buf[j], im |-> wr_buf[j]]]]

\* lapack_panic!(info) after the compute call, then
\* res[i] = Complex::new(wr[i], wi[i]) for i in 0..res.len()
complex_finish(i, wr_buf, wi_buf, n) ==
    IF lapack_panic(i)
    THEN [outcome |-> "panic", res |-> <<>>]
    ELSE [outcome |-> "value",
          res |-> [j \in 1..n |-> [re |-> wr_buf[j], im |-> wi_buf[j]]]]

\* complex_eigenvalues up to the workspace probe
complex_begin(r, c) ==
    /\ pc = "idle"
    /\ api' = "complex_eigenvalues"
    /\ nrows' = r
    /\ ncols' = c
    /\ IF complex_assert(r, c)
       THEN /\ wr' = zeros_vector(r)
            /\ wi' = zeros_vector(r)
            /\ info' = 0
            /\ pc' = "work_size"
            /\ outcome' = "pending"
       ELSE /\ pc' = "done"
            /\ outcome' = "panic"
            /\ UNCHANGED <<wr, wi, info>>
    /\ UNCHANGED <<left_eigenvectors, eigenvectors, lwork, calls, paths,
                   result, res, det>>

\* complex_eigenvalues: T::xgeev_work_size(b'T', b'T', ..) and
\* lapack_panic!(info)
complex_work_size ==
    /\ pc = "work_size"
    /\ api = "complex_eigenvalues"
    /\ \E k \in KernelProbe :
         /\ calls' = Append(calls,
                xgeev_work_size("T", "T", nrows, nrows, wr, wi,
                                placeholder_len, nrows, placeholder_len, nrows, k))
         /\ info' = k.info
         /\ lwork' = k.work0
         /\ IF lapack_panic(k.info)
            THEN pc' = "done" /\ outcome' = "panic"
            ELSE pc' = "compute" /\ outcome' = outcome
    /\ UNCHANGED <<api, nrows, ncols, left_eigenvectors, eigenvectors, wr, wi,
                   paths, result, res, det>>

\* complex_eigenvalues: the workspace, T::xgeev(b'T', b'T', ..), the status
\* check and the vector of complex numbers
complex_compute ==
    /\ pc = "compute"
    /\ api = "complex_eigenvalues"
    /\ \E k \in KernelCompute(nrows) :
         LET f == complex_finish(k.info, k.wr, k.wi, nrows)
         IN  /\ calls' = Append(calls,
                    xgeev("T", "T", nrows, nrows, placeholder_len, 1,
                          placeholder_len, 1, work_len_of(lwork), lwork, k))
             /\ wr' = k.wr
             /\ wi' = k.wi
             /\ info' = k.info
             /\ outcome' = f.outcome
             /\ res' = f.res
    /\ pc' = "done"
    /\ UNCHANGED <<api, nrows, ncols, left_eigenvectors, eigenvectors, lwork,
                   paths, result, det>>

(***************************************************************************)
(* Eigen::determinant                                                      *)
(***************************************************************************)
\* the loop `for e in self.eigenvalues.iter() { det *= *e; }` from the
\* element at index i on, with the accumulator acc
RECURSIVE det_loop(_, _, _)
det_loop(ev, i, acc) ==
    IF i > Len(ev) THEN acc ELSE det_loop(ev, i + 1, Mul(acc, ev[i]))

\* the mutant of determinant: the accumulator starts at zero
determinant_from_zero(ev) == det_loop(ev, 1, zero)

\* let mut det = T::one(); the loop; det
determinant(ev) == det_loop(ev, 1, one)

\* a call of determinant(&self) on the result of a successful Eigen::new
determinant_call ==
    /\ pc = "done"
    /\ outcome = "Some"
    /\ ~det.called
    /\ det' = [called |-> TRUE, value |-> determinant(result.eigenvalues),
               before |-> result]
    /\ UNCHANGED <<pc, api, nrows, ncols, left_eigenvectors, eigenvectors,
                   wr, wi, info, lwork, calls, paths, outcome, result, res>>

(***************************************************************************)
(* The specification.                                                      *)
(***************************************************************************)
Next ==
    \/ \E r \in Dims, c \in Dims, l \in BOOLEAN, e \in BOOLEAN : new_begin(r, c, l, e)
    \/ new_work_size
    \/ new_compute
    \/ \E r \in Dims, c \in Dims : complex_begin(r, c)
    \/ complex_work_size
    \/ complex_compute
    \/ determinant_call

Spec == Init /\ [][Next]_vars


(***************************************************************************)
(* Properties.                                                             *)
(***************************************************************************)
Started == api # "none"

Square == nrows = ncols

\* some kernel invocation of this call reported a nonzero status
SomeStatusNonzero == \E j \in 1..Len(calls) : calls[j].info # 0

\* some kernel invocation of this call reported a negative status
SomeStatusNegative == \E j \in 1..Len(calls) : calls[j].info < 0

\* both kernel invocations were made and both reported status 0
BothStatusZero ==
    /\ Len(calls) = 2
    /\ calls[1].info = 0
    /\ calls[2].info = 0

\* C1: a call of Eigen::new or complex_eigenvalues on a non-square matrix
\* ends in the precondition panic with no kernel invocation made and no
\* value returned.
C1_NonSquareFailsBeforeKernel ==
    (Started /\ ~Square) =>
        /\ pc = "done"
        /\ outcome = "panic"
        /\ calls = <<>>
        /\ result = NoResult
        /\ res = <<>>

C1_Witness ==
    /\ api = "new"
    /\ nrows = 2
    /\ ncols = 3
    /\ outcome = "panic"

\* C2: Eigen::new returns None whenever the probe or the compute call
\* reported a nonzero status, for every flag combination, and whenever it
\* returns Some both kernel invocations reported status 0.
C2_SomeOnlyOnStatusZero ==
    api = "new" =>
        /\ SomeStatusNonzero => (pc = "done" /\ outcome = "None" /\ result = NoResult)
        /\ outcome = "Some" => BothStatusZero

C2_Witness ==
    /\ api = "new"
    /\ Len(calls) = 2
    /\ calls[1].info = 0
    /\ calls[2].info = 1
    /\ all_zero(calls[2].wi_out)
    /\ left_eigenvectors
    /\ eigenvectors
    /\ outcome = "None"

\* C3: when both kernel invocations of Eigen::new reported status 0, the
\* call returns None if some imaginary part written by the kernel is
\* nonzero, and otherwise Some whose eigenvalues are the n real parts the
\* kernel wrote, element for element in the kernel's order.
C3_RealnessDecides ==
    (api = "new" /\ BothStatusZero) =>
        /\ ~all_zero(calls[2].wi_out) => (outcome = "None" /\ result = NoResult)
        /\ all_zero(calls[2].wi_out) =>
              /\ outcome = "Some"
              /\ Len(result.eigenvalues) = nrows
              /\ \A j \in 1..nrows : result.eigenvalues[j] = calls[2].wr_out[j]

C3_Witness ==
    /\ api = "new"
    /\ BothStatusZero
    /\ nrows = 3
    /\ calls[2].wr_out = <<FMax, 0, 1>>
    /\ all_zero(calls[2].wi_out)
    /\ outcome = "Some"
    /\ result.eigenvalues = <<FMax, 0, 1>>

\* C4: complex_eigenvalues panics, and returns no vector, whenever the
\* probe or the compute call reported a nonzero status; Eigen::new on a
\* nonzero status ends with None and does not panic.
C4_ComplexPanicsOnStatus ==
    /\ (api = "complex_eigenvalues" /\ SomeStatusNonzero) =>
          (pc = "done" /\ outcome = "panic" /\ res = <<>>)
    /\ (api = "complex_eigenvalues" /\ outcome = "value") => BothStatusZero
    /\ (api = "new" /\ SomeStatusNonzero) => (pc = "done" /\ outcome = "None")

C4_Witness ==
    /\ api = "complex_eigenvalues"
    /\ Len(calls) = 2
    /\ calls[2].info = 1
    /\ calls[2].wr_out = <<1, 1>>
    /\ outcome = "panic"

\* C5: when both kernel invocations of complex_eigenvalues reported status
\* 0, the call returns n complex numbers, the i-th built from the i-th real
\* part and the i-th imaginary part the kernel wrote, in the kernel's
\* order, whether or not an imaginary part is nonzero.
C5_ComplexPairsInOrder ==
    (api = "complex_eigenvalues" /\ BothStatusZero) =>
        /\ outcome = "value"
        /\ Len(res) = nrows
        /\ \A j \in 1..nrows :
              /\ res[j].re = calls[2].wr_out[j]
              /\ res[j].im = calls[2].wi_out[j]

C5_Witness ==
    /\ api = "complex_eigenvalues"
    /\ BothStatusZero
    /\ calls[2].wr_out = <<1, 0, 1>>
    /\ calls[2].wi_out = <<1, 0, 0 - 1>>
    /\ outcome = "value"
    /\ res = <<[re |-> 1, im |-> 1], [re |-> 0, im |-> 0], [re |-> 1, im |-> 0 - 1]>>

\* the match arm that belongs to a flag combination
ArmOf(l, e) == job(l) \o job(e)

\* C6: in every result of Eigen::new the left eigenvectors are present
\* exactly when the left_eigenvectors flag was set, the right eigenvectors
\* exactly when the eigenvectors flag was set, every present matrix is
\* n x n, and a call enters at most one match arm: the arm of its flags,
\* and exactly one once the compute call was made.
C6_FieldsFollowFlags ==
    api = "new" =>
        /\ outcome = "Some" =>
              /\ result.left_eigenvectors.present <=> left_eigenvectors
              /\ result.eigenvectors.present <=> eigenvectors
              /\ result.left_eigenvectors.present =>
                    /\ result.left_eigenvectors.nrows = nrows
                    /\ result.left_eigenvectors.ncols = nrows
              /\ result.eigenvectors.present =>
                    /\ result.eigenvectors.nrows = nrows
                    /\ result.eigenvectors.ncols = nrows
        /\ Len(paths) <= 1
        /\ Len(calls) = 2 <=> Len(paths) = 1
        /\ Len(paths) = 1 => paths[1] = ArmOf(left_eigenvectors, eigenvectors)

C6_Witness ==
    /\ api = "new"
    /\ outcome = "Some"
    /\ nrows = 2
    /\ left_eigenvectors
    /\ ~eigenvectors
    /\ result.left_eigenvectors = [present |-> TRUE, nrows |-> 2, ncols |-> 2]
    /\ result.eigenvectors = NoMatrix
    /\ paths = <<"VT">>

\* C7 as stated: a negative status, from the probe or from the compute
\* call, makes the call panic, in Eigen::new as in complex_eigenvalues.
C7_NegativeStatusPanics ==
    (Started /\ SomeStatusNegative) => (pc = "done" /\ outcome = "panic")

\* C7 as amended: a negative status makes complex_eigenvalues panic;
\* Eigen::new ends with None on it, without a panic, which is also how it
\* ends on a positive status.
C7_NegativeStatusByApi ==
    /\ (api = "complex_eigenvalues" /\ SomeStatusNegative) =>
          (pc = "done" /\ outcome = "panic" /\ res = <<>>)
    /\ (api = "new" /\ SomeStatusNegative) =>
          (pc = "done" /\ outcome = "None" /\ result = NoResult)
    /\ (api = "new" /\ SomeStatusNonzero /\ ~SomeStatusNegative) =>
          (pc = "done" /\ outcome = "None" /\ result = NoResult)

C7_Witness ==
    /\ api = "new"
    /\ Len(calls) = 2
    /\ calls[2].info < 0
    /\ outcome = "None"

\* the product of the first k entries of ev, multiplied from the left
\* starting with one
RECURSIVE ProductOfFirst(_, _)
ProductOfFirst(ev, k) ==
    IF k = 0 THEN one ELSE Mul(ProductOfFirst(ev, k - 1), ev[k])

\* C8: determinant returns the product of all eigenvalues of the result,
\* multiplied in index order starting from one (one for dimension 0, the
\* eigenvalue itself for dimension 1); it is only called on a result and
\* leaves the result as it was.
C8_DeterminantIsProduct ==
    det.called =>
        /\ outcome = "Some"
        /\ det.before = result
        /\ det.value = ProductOfFirst(result.eigenvalues, Len(result.eigenvalues))
        /\ Len(result.eigenvalues) = 0 => det.value = one
        /\ Len(result.eigenvalues) = 1 => det.value = result.eigenvalues[1]

C8_Witness ==
    /\ det.called
    /\ result.eigenvalues = <<FMax, FMax, 0>>
    /\ det.value = NaN

\* C9 as stated: every call on a square matrix issues exactly two kernel
\* invocations, the probe with lwork = -1 and then the compute call with a
\* workspace of the length the probe reported.
C9_ExactlyTwoCalls ==
    (Started /\ Square /\ pc = "done") =>
        /\ Len(calls) = 2
        /\ calls[1].lwork = 0 - 1
        /\ calls[2].lwork = calls[1].work0
        /\ calls[2].work_len = calls[1].work0

\* C9 as amended: every call on a square matrix issues the probe (lwork =
\* -1, one-element workspace) first and exactly once; it issues the compute
\* call exactly once after a probe that reported status 0, with lwork and
\* the workspace length equal to the value the probe reported, and issues
\* no compute call after a probe that reported a nonzero status.
C9_ProbeThenCompute ==
    (Started /\ Square) =>
        /\ Len(calls) <= 2
        /\ pc = "work_size" <=> Len(calls) = 0
        /\ pc = "compute" => Len(calls) = 1
        /\ Len(calls) >= 1 =>
              /\ calls[1].lwork = 0 - 1
              /\ calls[1].work_len = 1
        /\ Len(calls) = 2 =>
              /\ calls[1].info = 0
              /\ calls[2].lwork = calls[1].work0
              /\ calls[2].work_len = calls[1].work0
              /\ calls[2].lwork >= 1
        /\ pc = "done" => Len(calls) = (IF calls[1].info = 0 THEN 2 ELSE 1)

C9_Witness ==
    /\ api = "new"
    /\ nrows = 2
    /\ ncols = 2
    /\ pc = "done"
    /\ Len(calls) = 2
    /\ calls[1].work0 = MaxWork
    /\ calls[2].work_len = MaxWork

\* C10: the probe passes the same job flags and the same dimension
\* arguments n, lda, ldvl, ldvr as the compute call that follows it.
C10_ProbeMatchesCompute ==
    Len(calls) = 2 =>
        /\ calls[1].jobvl = calls[2].jobvl
        /\ calls[1].jobvr = calls[2].jobvr
        /\ calls[1].n = calls[2].n
        /\ calls[1].lda = calls[2].lda
        /\ calls[1].ldvl = calls[2].ldvl
        /\ calls[1].ldvr = calls[2].ldvr

====
